---- MODULE Spec2Model ----
(***************************************************************************)
(* A model of the vegetation-change workflow of                            *)
(* 01-code-scripts/gee-vegetation-change-methods-columbia.ipynb.           *)
(*                                                                         *)
(* Two specifications share the module.                                    *)
(*   Spec      the notebook run as a sequence of cells, executed by        *)
(*             NumRuns kernels against one asset store: the processing     *)
(*             cells either succeed or raise, the export cell checks each  *)
(*             asset and takes the skip arm or the export arm.             *)
(*   PipeSpec  the data of one run: the rasters, the NDVI difference, the  *)
(*             segmentation, the classification and the vectors, computed  *)
(*             cell by cell from a catalogue scene drawn in Init.          *)
(* The functions the notebook imports from vegetation_change.py are        *)
(* modelled from their contracts (sections 4.1-4.7 of the specification)   *)
(* and from the notebook's own description of them.                        *)
(***************************************************************************)
EXTENDS Integers, Sequences, FiniteSets, TLC

\* Number of kernels that run the notebook against the same asset store.
NumRuns == 2

VARIABLES
    pc,               \* Spec: per run, the cell (or statement) to execute next
    error,            \* Spec: per run, the exception that ended it, or "none"
    asset_found,      \* Spec: per run and class, the value of the if-condition
    existed,          \* Spec (history): whether the asset existed at that check
    finished_before,  \* Spec (history): runs whose export of the class was over at that check
    outcome,          \* Spec: per run and class, "None", "Skipped" or "Exported"
    calls,            \* Spec: per run and class, the calls of vc.export_vector
    store,            \* Spec: the GEE asset store, asset id -> objects written
    retries,          \* Spec (history): per run, the cell executions that repeated a cell
    ppc,                  \* PipeSpec: the cell to execute next
    perror,               \* PipeSpec: the exception that ended the run, or "none"
    scene,                \* PipeSpec: what the catalogue and the boundary asset hold, per pixel
    closed_high,          \* PipeSpec: whether a ThresholdBand includes its high end
    namespace,            \* PipeSpec: the notebook variables bound so far
    study_area_boundary,  \* PipeSpec: cell 4
    collection,           \* PipeSpec: cell 5, ee.ImageCollection([peak_green, post_harvest])
    ndvi_diff,            \* PipeSpec: cell 6
    clusters,             \* PipeSpec: cell 8, the RegionMap inside segment_snic
    change_features,      \* PipeSpec: cell 8, class -> extracted RegionMap
    change_vectors        \* PipeSpec: cell 9, class -> FeatureCollection

runVars ==
    <<pc, error, asset_found, existed, finished_before, outcome, calls, store, retries>>

pipeVars ==
    <<ppc, perror, scene, closed_high, namespace, study_area_boundary, collection,
      ndvi_diff, clusters, change_features, change_vectors>>

vars == <<runVars, pipeVars>>

Runs == 1..NumRuns

Classes == {"primary", "secondary"}

-----------------------------------------------------------------------------
(* Cell 3 and the head of cell 10: the asset names.                        *)

gee_username == "calekochenour"

gee_asset_folder == "vegetation-change"

\* f'users/{gee_username}/{gee_asset_folder}/vegetation_change_<class>'
change_asset_name(class) ==
    <<"users", gee_username, gee_asset_folder, "vegetation_change_" \o class>>

AssetIds == {change_asset_name(c) : c \in Classes}

\* An object a run of an earlier day left in the store.
PriorObject(class) == [writer |-> 0, vector |-> class]

\* change_primary_vector / change_secondary_vector of run r (cell 9).
change_vector(r, class) == [writer |-> r, vector |-> class]

\* The persistent store's exists(id).
exists(st, asset_id) == Len(st[asset_id]) > 0

\* ee.FeatureCollection(asset_id): a client-side handle that names the table.
\* Constructing it sends nothing to the server and reads nothing of the store.
FeatureCollection(asset_id) == [table |-> asset_id]

\* Python's truth value of an object: ee.FeatureCollection defines neither
\* __bool__ nor __len__, so every instance counts as true.
truth_value(obj) == "table" \in DOMAIN obj

asset_check_negated(st, asset_id) == ~truth_value(FeatureCollection(asset_id))

\* The condition `(change_<class>_asset := ee.FeatureCollection(name))` of the
\* two if-statements of cell 10, evaluated against store st.
asset_check(st, asset_id) == truth_value(FeatureCollection(asset_id))

\* vc.export_vector(vector, description, output_name, 'asset'): the store's
\* write(FeatureCollection, id).
export_vector(st, vector, output_name) ==
    [st EXCEPT ![output_name] = Append(@, vector)]

-----------------------------------------------------------------------------
(* The cells of one run, in notebook order.                                *)

CellOrder ==
    <<"load", "ndvi_diff", "segment", "vector_primary", "vector_secondary",
      "check_primary", "branch_primary", "check_secondary", "branch_secondary",
      "done">>

ProcessingCells == {"load", "ndvi_diff", "segment", "vector_primary", "vector_secondary"}

\* The permanent errors a processing cell can raise (sections 4.1-4.6, 7).
CellErrors(cell) ==
    CASE cell = "ndvi_diff" ->
           {"InvalidBandError", "MissingBandError", "IndexOutOfRangeError",
            "GeometryMismatchError"}
      [] cell = "segment" -> {"EmptySegmentationError"}
      [] cell \in {"vector_primary", "vector_secondary"} -> {"EmptyRegionMapError"}
      [] OTHER -> {}

\* The retryable error of a cell: every processing cell talks to the remote
\* raster service, whose calls may time out (sections 5 and 7).
TransientErrors(cell) == IF cell \in ProcessingCells THEN {"TransientIOError"} ELSE {}

IndexOf(cell) == CHOOSE i \in 1..Len(CellOrder) : CellOrder[i] = cell

next_cell_swallowing(cell, result) == CellOrder[IndexOf(cell) + 1]

next_cell_retrying(cell, result) ==
    IF result = "ok" THEN CellOrder[IndexOf(cell) + 1]
    ELSE IF result = "TransientIOError" THEN cell ELSE "aborted"

\* An exception in a cell ends the run; otherwise the next cell runs.
next_cell(cell, result) ==
    IF result = "ok" THEN CellOrder[IndexOf(cell) + 1] ELSE "aborted"

\* The data of the run is not part of Spec: its variables stay as parked here.
PipeParked ==
    /\ ppc = "off"
    /\ perror = "none"
    /\ scene = <<>>
    /\ closed_high = FALSE
    /\ namespace = {}
    /\ study_area_boundary = "unset"
    /\ collection = <<>>
    /\ ndvi_diff = "unset"
    /\ clusters = "unset"
    /\ change_features = "unset"
    /\ change_vectors = <<>>

InitRuns ==
    /\ PipeParked
    /\ pc = [r \in Runs |-> "load"]
    /\ error = [r \in Runs |-> "none"]
    /\ asset_found = [r \in Runs |-> [c \in Classes |-> FALSE]]
    /\ existed = [r \in Runs |-> [c \in Classes |-> FALSE]]
    /\ finished_before = [r \in Runs |-> [c \in Classes |-> {}]]
    /\ outcome = [r \in Runs |-> [c \in Classes |-> "None"]]
    /\ calls = [r \in Runs |-> [c \in Classes |-> 0]]
    /\ retries = [r \in Runs |-> 0]
    /\ \E present \in SUBSET Classes :
          store = [a \in AssetIds |->
                     IF \E c \in present : a = change_asset_name(c)
                     THEN <<PriorObject(CHOOSE c \in present : a = change_asset_name(c))>>
                     ELSE <<>>]

\* Cells 5, 6, 8 and 9: a processing cell returns or raises.
RunCell(r) ==
    /\ pc[r] \in ProcessingCells
    /\ \E result \in {"ok"} \cup CellErrors(pc[r]) \cup TransientErrors(pc[r]) :
          /\ pc' = [pc EXCEPT ![r] = next_cell(pc[r], result)]
          /\ error' = [error EXCEPT ![r] = IF result = "ok" THEN @ ELSE result]
          /\ retries' = [retries EXCEPT ![r] =
                            IF next_cell(pc[r], result) = pc[r] THEN @ + 1 ELSE @]
    /\ UNCHANGED <<asset_found, existed, finished_before, outcome, calls, store>>
    /\ UNCHANGED pipeVars

\* Cell 10, the condition of `if (change_<c>_asset := ee.FeatureCollection(...))`.
CheckAsset(r, c) ==
    /\ pc[r] = "check_" \o c
    /\ asset_found' = [asset_found EXCEPT ![r][c] = asset_check(store, change_asset_name(c))]
    /\ existed' = [existed EXCEPT ![r][c] = exists(store, change_asset_name(c))]
    /\ finished_before' =
          [finished_before EXCEPT ![r][c] = {q \in Runs \ {r} : outcome[q][c] # "None"}]
    /\ pc' = [pc EXCEPT ![r] = "branch_" \o c]
    /\ UNCHANGED <<error, outcome, calls, store, retries>>
    /\ UNCHANGED pipeVars

ExportBranchRaising(r, c) ==
    /\ pc[r] = "branch_" \o c
    /\ pc' = [pc EXCEPT ![r] = "aborted"]
    /\ UNCHANGED <<error, asset_found, existed, finished_before, outcome, calls, store, retries>>
    /\ UNCHANGED pipeVars

ExportBranchUnconditional(r, c) ==
    /\ pc[r] = "branch_" \o c
    /\ store' = export_vector(store, change_vector(r, c), change_asset_name(c))
    /\ calls' = [calls EXCEPT ![r][c] = @ + 1]
    /\ outcome' = [outcome EXCEPT ![r][c] = IF asset_found[r][c] THEN "Skipped" ELSE "Exported"]
    /\ pc' = [pc EXCEPT ![r] = next_cell(pc[r], "ok")]
    /\ UNCHANGED <<error, asset_found, existed, finished_before, retries>>
    /\ UNCHANGED pipeVars

\* Cell 10, the arm the condition selects: print "... already exists. Skipping
\* export..." or call vc.export_vector.
ExportBranch(r, c) ==
    /\ pc[r] = "branch_" \o c
    /\ IF asset_found[r][c]
       THEN /\ outcome' = [outcome EXCEPT ![r][c] = "Skipped"]
            /\ UNCHANGED <<calls, store>>
       ELSE /\ store' = export_vector(store, change_vector(r, c), change_asset_name(c))
            /\ calls' = [calls EXCEPT ![r][c] = @ + 1]
            /\ outcome' = [outcome EXCEPT ![r][c] = "Exported"]
    /\ pc' = [pc EXCEPT ![r] = next_cell(pc[r], "ok")]
    /\ UNCHANGED <<error, asset_found, existed, finished_before, retries>>
    /\ UNCHANGED pipeVars

Next ==
    \E r \in Runs :
        \/ RunCell(r)
        \/ \E c \in Classes : CheckAsset(r, c)
        \/ \E c \in Classes : ExportBranch(r, c)

Spec == InitRuns /\ [][Next]_vars

\* A kernel that has a cell left to execute executes it: Jupyter runs the
\* cells of a notebook one after the other and each call returns or raises.
RunStep(r) ==
    \/ RunCell(r)
    \/ \E c \in Classes : CheckAsset(r, c)
    \/ \E c \in Classes : ExportBranch(r, c)

FairSpec == Spec /\ \A r \in Runs : WF_vars(RunStep(r))

-----------------------------------------------------------------------------
(* Exact arithmetic: an index value is a fraction <<numerator, denominator>> *)
(* in lowest terms with a positive denominator.                              *)

Abs(i) == IF i < 0 THEN -i ELSE i

RECURSIVE GCD(_, _)
GCD(a, b) == IF b = 0 THEN a ELSE GCD(b, a % b)

Norm(n, d) ==
    LET g == GCD(Abs(n), Abs(d))
        sg == IF d < 0 THEN -1 ELSE 1
    IN  IF n = 0 THEN <<0, 1>> ELSE <<(sg * n) \div g, (sg * d) \div g>>

RatAdd(a, b) == Norm(a[1] * b[2] + b[1] * a[2], a[2] * b[2])

RatSub(a, b) == Norm(a[1] * b[2] - b[1] * a[2], a[2] * b[2])

RatMul(a, b) == Norm(a[1] * b[1], a[2] * b[2])

RatLeq(a, b) == a[1] * b[2] <= b[1] * a[2]

RatLt(a, b) == a[1] * b[2] < b[1] * a[2]

RECURSIVE RatSum(_, _)
RatSum(f, S) ==
    IF S = {} THEN <<0, 1>>
    ELSE LET p == CHOOSE q \in S : TRUE IN RatAdd(f[p], RatSum(f, S \ {p}))

-----------------------------------------------------------------------------
(* Rasters.  A raster is one scan line of GridW pixels: a record of its     *)
(* band names, one function Pixels -> value per band, and its validity     *)
(* mask.                                                                    *)

\* Pixels per scan line.
GridW == 4

Pixels == 0..(GridW - 1)

NoData == <<0, 1>>

Failure(name, stage) == [error |-> name, stage |-> stage]

IsError(x) == "error" \in DOMAIN x

Sample(nir, red, qa) == [B5 |-> nir, B4 |-> red, pixel_qa |-> qa]

\* What one pixel can hold in the two catalogue scenes and whether it lies in
\* the study area.  NDVI: (18,2) 0.8, (11,9) 0.1, (13,7) 0.3.  pixel_qa: 322
\* clear, 328 cloud shadow, 352 cloud (Landsat 8 surface reflectance).
KindTable ==
    [steady    |-> [inside |-> TRUE,  peak |-> Sample(18, 2, 322), post |-> Sample(18, 2, 322)],
     harvested |-> [inside |-> TRUE,  peak |-> Sample(18, 2, 322), post |-> Sample(11, 9, 322)],
     edge      |-> [inside |-> TRUE,  peak |-> Sample(18, 2, 322), post |-> Sample(13, 7, 322)],
     cloud     |-> [inside |-> TRUE,  peak |-> Sample(18, 2, 352), post |-> Sample(11, 9, 322)],
     shadow    |-> [inside |-> TRUE,  peak |-> Sample(18, 2, 322), post |-> Sample(11, 9, 328)],
     outside   |-> [inside |-> FALSE, peak |-> Sample(18, 2, 322), post |-> Sample(11, 9, 322)]]

Kinds == DOMAIN KindTable

PeakGreenId == "LANDSAT/LC08/C01/T1_SR/LC08_008057_20170602"

PostHarvestId == "LANDSAT/LC08/C01/T1_SR/LC08_008057_20170906"

\* The sample the catalogue holds for pixel p of image image_id.
CatalogSample(sc, image_id, p) ==
    IF image_id = PeakGreenId THEN KindTable[sc[p]].peak ELSE KindTable[sc[p]].post

\* ee.Image(image_id): the catalogue's raster.
Image(sc, image_id) ==
    [bands |-> {"B4", "B5", "pixel_qa"},
     B5 |-> [p \in Pixels |-> CatalogSample(sc, image_id, p).B5],
     B4 |-> [p \in Pixels |-> CatalogSample(sc, image_id, p).B4],
     pixel_qa |-> [p \in Pixels |-> CatalogSample(sc, image_id, p).pixel_qa],
     valid |-> [p \in Pixels |-> TRUE]]

\* ee.FeatureCollection(".../drtt_study_area_boundary"): the pixels inside.
BoundaryTable(sc) == [inside |-> {p \in Pixels : KindTable[sc[p]].inside}]

\* image.clip(boundary): pixels outside the boundary become invalid.
clip(image, boundary) ==
    [image EXCEPT !.valid = [p \in Pixels |-> image.valid[p] /\ p \in boundary.inside]]

image_collection_reversed(first, second) == <<second, first>>

\* ee.ImageCollection([peak_green, post_harvest])
image_collection(first, second) == <<first, second>>

-----------------------------------------------------------------------------
(* vegetation_change.py: masking, index, sequence access, differencing.     *)

\* Bit positions of the cloud-shadow and cloud flags of pixel_qa.
cloud_shadow_bit == 3

clouds_bit == 5

RECURSIVE Pow2(_)
Pow2(k) == IF k = 0 THEN 1 ELSE 2 * Pow2(k - 1)

BitSet(q, k) == (q \div Pow2(k)) % 2 = 1

\* keep-mask = NOT(cloud bit set) AND NOT(shadow bit set)
keep_mask(qa) == ~BitSet(qa, clouds_bit) /\ ~BitSet(qa, cloud_shadow_bit)

\* A masker that replaces the mask instead of updating it, reading the QA
\* band through the old mask (a masked sample reads as 0).
mask_landsat8_sr_replacing(image) ==
    IF "pixel_qa" \notin image.bands THEN Failure("InvalidBandError", "mask")
    ELSE [image EXCEPT !.valid =
             [p \in Pixels |-> keep_mask(IF image.valid[p] THEN image.pixel_qa[p] ELSE 0)]]

\* CloudMasker.mask(raster, "pixel_qa")
mask_landsat8_sr(image) ==
    IF "pixel_qa" \notin image.bands THEN Failure("InvalidBandError", "mask")
    ELSE [image EXCEPT !.valid =
             [p \in Pixels |-> image.valid[p] /\ keep_mask(image.pixel_qa[p])]]

\* IndexComputer.add_index(raster, "B5", "B4", "NDVI")
add_ndvi(image) ==
    IF ~({"B5", "B4"} \subseteq image.bands) THEN Failure("MissingBandError", "index")
    ELSE [bands |-> image.bands \cup {"NDVI"},
          B5 |-> image.B5,
          B4 |-> image.B4,
          pixel_qa |-> image.pixel_qa,
          NDVI |-> [p \in Pixels |->
                      IF image.B5[p] + image.B4[p] = 0 THEN NoData
                      ELSE Norm(image.B5[p] - image.B4[p], image.B5[p] + image.B4[p])],
          valid |-> [p \in Pixels |-> image.valid[p] /\ image.B5[p] + image.B4[p] # 0]]

\* The collection as an ee.List, in collection order.
image_collection_to_list(image_collection_) == image_collection_

\* SequenceExtractor.ordered(sequence, index), positions counted from 0.
list_get(image_list, index) ==
    IF index \in 0..(Len(image_list) - 1) THEN image_list[index + 1]
    ELSE Failure("IndexOutOfRangeError", "sequence")

\* TemporalDifferencer.difference(later, earlier, "NDVI")
difference(later, earlier) ==
    IF "NDVI" \notin later.bands \/ "NDVI" \notin earlier.bands
    THEN Failure("MissingBandError", "difference")
    ELSE IF DOMAIN later.valid # DOMAIN earlier.valid
    THEN Failure("GeometryMismatchError", "difference")
    ELSE [bands |-> {"NDVI"},
          NDVI |-> [p \in Pixels |->
                      IF later.valid[p] /\ earlier.valid[p]
                      THEN RatSub(later.NDVI[p], earlier.NDVI[p])
                      ELSE NoData],
          valid |-> [p \in Pixels |-> later.valid[p] /\ earlier.valid[p]]]

subtract_ndvi_bands(image_list, post_change_index, pre_change_index) ==
    LET later == list_get(image_list, post_change_index)
        earlier == list_get(image_list, pre_change_index)
    IN  IF IsError(later) THEN later
        ELSE IF IsError(earlier) THEN earlier
        ELSE difference(later, earlier)

\* The first failure among the images of a mapped collection, if any.
FirstError(images) ==
    LET bad == {i \in DOMAIN images : IsError(images[i])}
    IN  images[CHOOSE i \in bad : \A j \in bad : i <= j]

AnyError(images) == \E i \in DOMAIN images : IsError(images[i])

ndvi_diff_landsat8_unmasked(image_collection_, post_change_index, pre_change_index) ==
    LET indexed == [i \in DOMAIN image_collection_ |-> add_ndvi(image_collection_[i])]
    IN  IF AnyError(indexed) THEN FirstError(indexed)
        ELSE subtract_ndvi_bands(image_collection_to_list(indexed),
                                 post_change_index, pre_change_index)

\* Mask each image, add NDVI to each image, convert to a list, subtract the
\* pre-change NDVI from the post-change NDVI.
ndvi_diff_landsat8(image_collection_, post_change_index, pre_change_index) ==
    LET masked == [i \in DOMAIN image_collection_ |-> mask_landsat8_sr(image_collection_[i])]
    IN  IF AnyError(masked) THEN FirstError(masked)
        ELSE LET indexed == [i \in DOMAIN masked |-> add_ndvi(masked[i])]
             IN  IF AnyError(indexed) THEN FirstError(indexed)
                 ELSE subtract_ndvi_bands(image_collection_to_list(indexed),
                                          post_change_index, pre_change_index)


-----------------------------------------------------------------------------
(* vegetation_change.py: segmentation, classification, vectorization.       *)

\* Spacing of the seed grid and weight of the spectral term.
seed_spacing == 2

compactness == 20

Seeds == {p \in Pixels : p % seed_spacing = 0}

\* A pixel takes part in the segmentation when it is valid and in the boundary.
Usable(raster, boundary, p) == raster.valid[p] /\ p \in boundary.inside

\* distance = spatial_distance^2 + compactness * spectral_distance^2.  A seed
\* on a pixel without a usable sample has no spectral value; the spectral
\* term is then 0.
SeedDistance(raster, boundary, p, s) ==
    LET spectral == IF Usable(raster, boundary, s)
                    THEN RatSub(raster.NDVI[p], raster.NDVI[s])
                    ELSE <<0, 1>>
    IN  RatAdd(<<(p - s) * (p - s), 1>>,
               RatMul(<<compactness, 1>>, RatMul(spectral, spectral)))

NearestSeeds(raster, boundary, p) ==
    {s \in Seeds : \A t \in Seeds :
        RatLeq(SeedDistance(raster, boundary, p, s), SeedDistance(raster, boundary, p, t))}

assigned_seeds_untied(raster, boundary, p) == NearestSeeds(raster, boundary, p)

\* The seed a pixel is assigned to: the nearest one, the lowest-numbered of
\* several equally near (the assignment is reproducible).
assigned_seeds(raster, boundary, p) ==
    LET near == NearestSeeds(raster, boundary, p)
    IN  {CHOOSE s \in near : \A t \in near : s <= t}

\* RegionSegmenter.segment(raster, boundary, seed_spacing, compactness)
segment(raster, boundary) ==
    IF \A p \in Pixels : ~Usable(raster, boundary, p)
    THEN Failure("EmptySegmentationError", "segment")
    ELSE [members |->
            [s \in Seeds |->
               {p \in Pixels : Usable(raster, boundary, p)
                               /\ s \in assigned_seeds(raster, boundary, p)}]]

ndvi_change_thresholds_swapped == << <<-2, 1>>, <<-1, 2>>, <<-7, 20>>, <<-1, 2>> >>

\* [-2.0, -0.5, -0.5, -0.35]
ndvi_change_thresholds == << <<-2, 1>>, <<-1, 2>>, <<-1, 2>>, <<-7, 20>> >>

\* indices 0/1 identify min/max for the primary class, 2/3 for the secondary.
ThresholdBand(thresholds, class) ==
    IF class = "primary"
    THEN [low |-> thresholds[1], high |-> thresholds[2]]
    ELSE [low |-> thresholds[3], high |-> thresholds[4]]

InBand(value, band, closed) ==
    /\ RatLeq(band.low, value)
    /\ IF closed THEN RatLeq(value, band.high) ELSE RatLt(value, band.high)

ValidMembers(raster, pixels) == {p \in pixels : raster.valid[p]}

\* The mean of the raster over the valid pixels of a non-empty set.
RegionMean(raster, pixels) ==
    LET sum == RatSum(raster.NDVI, ValidMembers(raster, pixels))
    IN  Norm(sum[1], sum[2] * Cardinality(ValidMembers(raster, pixels)))

Retained(raster, regions, band, closed) ==
    {s \in DOMAIN regions.members :
        /\ ValidMembers(raster, regions.members[s]) # {}
        /\ InBand(RegionMean(raster, regions.members[s]), band, closed)}

\* RegionSegmenter.classify(raster, regions, thresholds): one filtered
\* RegionMap per class, each band evaluated on its own.
classify(raster, regions, thresholds, closed) ==
    [c \in Classes |->
       [members |->
          [s \in Retained(raster, regions, ThresholdBand(thresholds, c), closed)
             |-> regions.members[s]]]]

\* Segment, classify, extract; returns the extracted features by class.
segment_snic(ndvi_diff_image, boundary, thresholds, closed) ==
    LET regions == segment(ndvi_diff_image, boundary)
    IN  IF IsError(regions) THEN regions
        ELSE classify(ndvi_diff_image, regions, thresholds, closed)

\* The maximal runs of adjacent pixels of a set, as <<first, last>>.
Runs1D(pixels) ==
    {run \in pixels \X pixels :
        /\ run[1] <= run[2]
        /\ \A p \in run[1]..run[2] : p \in pixels
        /\ (run[1] - 1) \notin pixels
        /\ (run[2] + 1) \notin pixels}

\* Vectorizer.vectorize(region_map, boundary): one polygon per connected
\* group of a region's pixels, from the left edge of its first pixel to the
\* right edge of its last, carrying the region identifier.
raster_to_vector(image, boundary) ==
    IF DOMAIN image.members = {} THEN Failure("EmptyRegionMapError", "vectorize")
    ELSE [features |->
            UNION {{[region |-> s, ring |-> <<run[1], run[2] + 1>>] :
                        run \in Runs1D(image.members[s] \cap boundary.inside)} :
                   s \in DOMAIN image.members}]

Covers(polygon, p) == polygon.ring[1] <= p /\ p < polygon.ring[2]

-----------------------------------------------------------------------------
(* The data of one run, cell by cell.                                       *)

RunsParked ==
    /\ pc = [r \in Runs |-> "off"]
    /\ error = [r \in Runs |-> "none"]
    /\ asset_found = [r \in Runs |-> [c \in Classes |-> FALSE]]
    /\ existed = [r \in Runs |-> [c \in Classes |-> FALSE]]
    /\ finished_before = [r \in Runs |-> [c \in Classes |-> {}]]
    /\ outcome = [r \in Runs |-> [c \in Classes |-> "None"]]
    /\ calls = [r \in Runs |-> [c \in Classes |-> 0]]
    /\ store = [a \in AssetIds |-> <<>>]
    /\ retries = [r \in Runs |-> 0]

InitPipe ==
    /\ RunsParked
    /\ ppc = "boundary"
    /\ perror = "none"
    /\ scene \in [Pixels -> Kinds]
    /\ closed_high \in BOOLEAN
    /\ namespace = {}
    /\ study_area_boundary = "unset"
    /\ collection = <<>>
    /\ ndvi_diff = "unset"
    /\ clusters = "unset"
    /\ change_features = "unset"
    /\ change_vectors = <<>>

\* Cell 4: study_area_boundary = ee.FeatureCollection(".../drtt_study_area_boundary")
BoundaryCell ==
    /\ ppc = "boundary"
    /\ study_area_boundary' = BoundaryTable(scene)
    /\ namespace' = namespace \cup {"study_area_boundary"}
    /\ ppc' = "load"
    /\ UNCHANGED <<perror, scene, closed_high, collection, ndvi_diff, clusters,
                   change_features, change_vectors>>
    /\ UNCHANGED runVars

\* Cell 5: load and clip the two images, build the collection.
LoadCell ==
    /\ ppc = "load"
    /\ collection' =
          image_collection(clip(Image(scene, PeakGreenId), study_area_boundary),
                           clip(Image(scene, PostHarvestId), study_area_boundary))
    /\ namespace' = namespace \cup {"peak_green", "post_harvest", "collection"}
    /\ ppc' = "ndvi_diff"
    /\ UNCHANGED <<perror, scene, closed_high, study_area_boundary, ndvi_diff, clusters,
                   change_features, change_vectors>>
    /\ UNCHANGED runVars

\* ndvi_diff = vc.ndvi_diff_landsat8(collection, 1, 0)
ndvi_diff_cell(image_collection_) == ndvi_diff_landsat8(image_collection_, 1, 0)

\* Cell 6.
NdviDiffCell ==
    /\ ppc = "ndvi_diff"
    /\ LET result == ndvi_diff_cell(collection)
       IN  IF IsError(result)
           THEN /\ perror' = result.error
                /\ ppc' = "aborted"
                /\ UNCHANGED <<ndvi_diff, namespace>>
           ELSE /\ ndvi_diff' = result
                /\ namespace' = namespace \cup {"ndvi_diff"}
                /\ ppc' = "segment"
                /\ UNCHANGED perror
    /\ UNCHANGED <<scene, closed_high, study_area_boundary, collection, clusters,
                   change_features, change_vectors>>
    /\ UNCHANGED runVars

\* Cells 7 and 8: change_features = vc.segment_snic(ndvi_diff,
\* study_area_boundary, ndvi_change_thresholds)
SegmentCell ==
    /\ ppc = "segment"
    /\ LET result == segment_snic(ndvi_diff, study_area_boundary,
                                  ndvi_change_thresholds, closed_high)
       IN  IF IsError(result)
           THEN /\ perror' = result.error
                /\ ppc' = "aborted"
                /\ UNCHANGED <<clusters, change_features, namespace>>
           ELSE /\ clusters' = segment(ndvi_diff, study_area_boundary)
                /\ change_features' = result
                /\ namespace' = namespace \cup {"ndvi_change_thresholds", "change_features"}
                /\ ppc' = "vector_primary"
                /\ UNCHANGED perror
    /\ UNCHANGED <<scene, closed_high, study_area_boundary, collection, ndvi_diff,
                   change_vectors>>
    /\ UNCHANGED runVars

\* Cell 9: change_<c>_vector = vc.raster_to_vector(change_features.get(c),
\* study_area_boundary), primary first.
VectorCell(c) ==
    /\ ppc = "vector_" \o c
    /\ LET result == raster_to_vector(change_features[c], study_area_boundary)
       IN  IF IsError(result)
           THEN /\ perror' = result.error
                /\ ppc' = "aborted"
                /\ UNCHANGED <<change_vectors, namespace>>
           ELSE /\ change_vectors' = [k \in (DOMAIN change_vectors) \cup {c} |->
                                         IF k = c THEN result ELSE change_vectors[k]]
                /\ namespace' = namespace \cup {"change_" \o c \o "_vector"}
                /\ ppc' = IF c = "primary" THEN "vector_secondary" ELSE "processed"
                /\ UNCHANGED perror
    /\ UNCHANGED <<scene, closed_high, study_area_boundary, collection, ndvi_diff,
                   clusters, change_features>>
    /\ UNCHANGED runVars

NextPipe ==
    \/ BoundaryCell
    \/ LoadCell
    \/ NdviDiffCell
    \/ SegmentCell
    \/ \E c \in Classes : VectorCell(c)

PipeSpec == InitPipe /\ [][NextPipe]_vars

-----------------------------------------------------------------------------
(* Claims about the export gate (cell 10) and the run, checked under Spec. *)

\* C1: when an object already exists at the destination at the time of the
\* check, the gate takes the skip arm: the step that executes the arm returns
\* Skipped, calls no exporter and leaves the store unchanged.
C1_SkipWhenExists ==
    [][\A r \in Runs, c \in Classes :
          (pc[r] = "branch_" \o c /\ pc'[r] # pc[r] /\ existed[r][c])
              => /\ outcome'[r][c] = "Skipped"
                 /\ calls' = calls
                 /\ store' = store]_vars

C1_Witness ==
    \E r \in Runs, c \in Classes : existed[r][c] /\ outcome[r][c] = "Skipped"

\* C2: when no object exists at the destination at the time of the check, the
\* gate calls the exporter exactly once and returns Exported, so the run's
\* vector is in the store afterwards.
C2_ExportWhenAbsent ==
    \A r \in Runs, c \in Classes :
        (outcome[r][c] # "None" /\ ~existed[r][c])
            => /\ outcome[r][c] = "Exported"
               /\ calls[r][c] = 1
               /\ \E i \in 1..Len(store[change_asset_name(c)]) :
                     store[change_asset_name(c)][i] = change_vector(r, c)

\* C3: of two successive gate calls on one destination (the second one's check
\* comes after the first one's arm has run), the exporter is called at most
\* once in total and the second call returns Skipped.
C3_SecondCallSkips ==
    \A r1 \in Runs, r2 \in Runs, c \in Classes :
        (r1 \in finished_before[r2][c] /\ outcome[r2][c] # "None")
            => /\ calls[r1][c] + calls[r2][c] <= 1
               /\ outcome[r2][c] = "Skipped"

C3_Witness ==
    \E r1 \in Runs, r2 \in Runs, c \in Classes :
        /\ r1 \in finished_before[r2][c]
        /\ outcome[r2][c] = "Skipped"
        /\ ~existed[r1][c]

\* C4: a run that a processing stage ended with a permanent error is aborted
\* there: it never calls the exporter, no object of the store was written by
\* it, and it reaches no arm of the export gate.
C4_FailedRunNeverWrites ==
    \A r \in Runs :
        error[r] # "none"
            => /\ pc[r] = "aborted"
               /\ \A c \in Classes : calls[r][c] = 0 /\ outcome[r][c] = "None"
               /\ \A a \in AssetIds : \A i \in 1..Len(store[a]) : store[a][i].writer # r

C4_Witness ==
    \E r \in Runs :
        /\ error[r] = "EmptyRegionMapError"
        /\ \A a \in AssetIds : ~exists(store, a)
        /\ \E q \in Runs : pc[q] = "done"

\* C5: with runs interleaved on the same destinations, every run calls the
\* exporter at most once per destination, a run that ends without an error has
\* returned Skipped or Exported for each destination, and every stored object
\* is a complete vector written to its own destination.
C5_RaceIsBenign ==
    /\ \A r \in Runs, c \in Classes : calls[r][c] <= 1
    /\ \A r \in Runs, c \in Classes :
          (pc[r] \in {"done", "aborted"} /\ error[r] = "none")
              => outcome[r][c] \in {"Skipped", "Exported"}
    /\ \A c \in Classes : \A i \in 1..Len(store[change_asset_name(c)]) :
          store[change_asset_name(c)][i]
              \in {PriorObject(c)} \cup {change_vector(r, c) : r \in Runs}

\* Both runs have evaluated the check of the same absent destination and
\* neither has executed its arm yet.
C5_Witness ==
    \E r1 \in Runs, r2 \in Runs :
        /\ r1 # r2
        /\ pc[r1] = "branch_primary"
        /\ pc[r2] = "branch_primary"
        /\ ~exists(store, change_asset_name("primary"))

\* A run is over: its last cell returned or an exception ended it.
Terminated(r) == pc[r] \in {"done", "aborted"}

\* C11: every run terminates.  A cell that fails with TransientIOError is
\* executed again at most a fixed number of times (the notebook has no retry
\* around its calls, so that number is 0), the failure is then the permanent
\* failure that aborts the run, and no run executes a cell forever.
C11_RunsTerminate ==
    /\ [](\A r \in Runs :
            /\ retries[r] = 0
            /\ error[r] = "TransientIOError" => pc[r] = "aborted")
    /\ \A r \in Runs : <>[]Terminated(r)

\* One run was ended by a TransientIOError of a processing cell, without a
\* repeated cell, while another run went through to its end.
C11_Witness ==
    \E r1 \in Runs, r2 \in Runs :
        /\ error[r1] = "TransientIOError"
        /\ pc[r1] = "aborted"
        /\ retries[r1] = 0
        /\ pc[r2] = "done"
        /\ error[r2] = "none"

\* The objects run r has written to the destination of class c.
WritesOf(r, c) ==
    {i \in 1..Len(store[change_asset_name(c)]) : store[change_asset_name(c)][i].writer = r}

\* The other class of the two.
OtherClass(c) == CHOOSE d \in Classes : d # c

\* C12: in one run the two class exports are single-shot and independent.
\* Each class's exporter is called at most once, only where that class's own
\* check was false, and every object the run has put at a class's destination
\* is that class's own vector, one per call; the outcome of a class's gate is
\* the one its own check selects; and the arm of one class leaves the check,
\* the calls, the outcome and the destination of the other class untouched.
C12_ExportsIndependent ==
    /\ [](\A r \in Runs, c \in Classes :
            /\ calls[r][c] <= 1
            /\ calls[r][c] = 1 => ~asset_found[r][c]
            /\ Cardinality(WritesOf(r, c)) = calls[r][c]
            /\ \A i \in WritesOf(r, c) :
                  store[change_asset_name(c)][i] = change_vector(r, c)
            /\ outcome[r][c] # "None"
                  => (outcome[r][c] = "Skipped" <=> asset_found[r][c]))
    /\ [][\A r \in Runs, c \in Classes :
            (pc[r] = "branch_" \o c /\ pc'[r] # pc[r])
                => /\ asset_found'[r][OtherClass(c)] = asset_found[r][OtherClass(c)]
                   /\ calls'[r][OtherClass(c)] = calls[r][OtherClass(c)]
                   /\ outcome'[r][OtherClass(c)] = outcome[r][OtherClass(c)]
                   /\ store'[change_asset_name(OtherClass(c))]
                         = store[change_asset_name(OtherClass(c))]]_vars

\* A run has gone through both gates, the primary destination held an object
\* at its check and the secondary destination held none at its own.
C12_Witness ==
    \E r \in Runs :
        /\ pc[r] = "done"
        /\ existed[r]["primary"]
        /\ ~existed[r]["secondary"]
        /\ outcome[r]["primary"] # "None"
        /\ outcome[r]["secondary"] # "None"

-----------------------------------------------------------------------------
(* Claims about the data of a run, checked under PipeSpec.                  *)

\* The two rasters the differencing gets: the collection masked and indexed.
DiffInputs == [i \in DOMAIN collection |-> add_ndvi(mask_landsat8_sr(collection[i]))]

\* C6: the difference raster holds, at every pixel valid in both of its
\* inputs, the later raster's NDVI minus the earlier one's, and is invalid at
\* every other pixel; with the collection [peak_green, post_harvest] and the
\* positions (1, 0) that is the post-harvest NDVI (B5-B4)/(B5+B4) of the
\* catalogue minus the peak-green one.
C6_PostMinusPeak ==
    "ndvi_diff" \in namespace =>
        \A p \in Pixels :
            LET peak == CatalogSample(scene, PeakGreenId, p)
                post == CatalogSample(scene, PostHarvestId, p)
                value == ndvi_diff.NDVI[p]
            IN  IF DiffInputs[1].valid[p] /\ DiffInputs[2].valid[p]
                THEN /\ ndvi_diff.valid[p]
                     /\ value[1] * (post.B5 + post.B4) * (peak.B5 + peak.B4)
                          = value[2] * ((post.B5 - post.B4) * (peak.B5 + peak.B4)
                                        - (peak.B5 - peak.B4) * (post.B5 + post.B4))
                ELSE ~ndvi_diff.valid[p]

C6_Witness ==
    /\ "ndvi_diff" \in namespace
    /\ \E p \in Pixels : ndvi_diff.valid[p] /\ ndvi_diff.NDVI[p] = <<-7, 10>>
    /\ \E p \in Pixels : ~ndvi_diff.valid[p]

\* Sum of the difference raster over the valid pixels of region s, and their number.
RegionSum(s) == RatSum(ndvi_diff.NDVI, {p \in clusters.members[s] : ndvi_diff.valid[p]})

RegionCount(s) == Cardinality({p \in clusters.members[s] : ndvi_diff.valid[p]})

\* mean >= -2.0 and mean <= (or <) -0.5, the mean being sum / count
MeanInPrimaryBand(s) ==
    /\ -2 * RegionCount(s) * RegionSum(s)[2] <= RegionSum(s)[1]
    /\ IF closed_high
       THEN 2 * RegionSum(s)[1] <= -1 * RegionCount(s) * RegionSum(s)[2]
       ELSE 2 * RegionSum(s)[1] < -1 * RegionCount(s) * RegionSum(s)[2]

\* mean >= -0.5 and mean <= (or <) -0.35
MeanInSecondaryBand(s) ==
    /\ -1 * RegionCount(s) * RegionSum(s)[2] <= 2 * RegionSum(s)[1]
    /\ IF closed_high
       THEN 20 * RegionSum(s)[1] <= -7 * RegionCount(s) * RegionSum(s)[2]
       ELSE 20 * RegionSum(s)[1] < -7 * RegionCount(s) * RegionSum(s)[2]

\* C7: each class's output retains exactly the regions with at least one
\* valid pixel whose mean difference lies in that class's own band, primary
\* (-2.0, -0.5) and secondary (-0.5, -0.35), whatever the other class retains;
\* a retained region keeps its pixels, and a region without a valid pixel is
\* in neither output.
C7_BandsIndependent ==
    "change_features" \in namespace =>
        \A s \in DOMAIN clusters.members :
            /\ s \in DOMAIN change_features["primary"].members
                  <=> (RegionCount(s) > 0 /\ MeanInPrimaryBand(s))
            /\ s \in DOMAIN change_features["secondary"].members
                  <=> (RegionCount(s) > 0 /\ MeanInSecondaryBand(s))
            /\ \A c \in Classes :
                  s \in DOMAIN change_features[c].members
                      => change_features[c].members[s] = clusters.members[s]

\* One region is in both outputs and another, without a valid pixel, in neither.
C7_Witness ==
    /\ "change_features" \in namespace
    /\ \E s \in DOMAIN clusters.members :
          /\ s \in DOMAIN change_features["primary"].members
          /\ s \in DOMAIN change_features["secondary"].members
    /\ \E s \in DOMAIN clusters.members :
          /\ RegionCount(s) = 0
          /\ \A c \in Classes : s \notin DOMAIN change_features[c].members

RECURSIVE SumOfSizes(_, _)
SumOfSizes(members, S) ==
    IF S = {} THEN 0
    ELSE LET s == CHOOSE t \in S : TRUE
         IN  Cardinality(members[s]) + SumOfSizes(members, S \ {s})

RegionsOf(p) == {s \in DOMAIN clusters.members : p \in clusters.members[s]}

Excluded == {p \in Pixels : ~ndvi_diff.valid[p] \/ p \notin study_area_boundary.inside}

\* C8: the RegionMap that segment produces is a partition: every valid pixel
\* inside the boundary is in exactly one region, every other pixel in none,
\* and the region sizes and the excluded pixels add up to the pixel count.
C8_Partition ==
    "change_features" \in namespace =>
        /\ \A p \in Pixels \ Excluded : Cardinality(RegionsOf(p)) = 1
        /\ \A p \in Excluded : RegionsOf(p) = {}
        /\ SumOfSizes(clusters.members, DOMAIN clusters.members) + Cardinality(Excluded)
              = Cardinality(Pixels)

\* Two regions with pixels, and a pixel left out.
C8_Witness ==
    /\ "change_features" \in namespace
    /\ Cardinality({s \in DOMAIN clusters.members : clusters.members[s] # {}}) >= 2
    /\ Excluded # {}
    /\ \E p \in Pixels \ Excluded :
          Cardinality(NearestSeeds(ndvi_diff, study_area_boundary, p)) >= 2

\* Pixel p has the cloud bit (32) or the cloud-shadow bit (8) set in the QA
\* band of one of the two catalogue images.
Contaminated(p) ==
    \E image_id \in {PeakGreenId, PostHarvestId} :
        LET qa == CatalogSample(scene, image_id, p).pixel_qa
        IN  (qa \div 32) % 2 = 1 \/ (qa \div 8) % 2 = 1

\* C9: a pixel flagged as cloud or cloud shadow in either input is invalid in
\* the difference raster, is in no region of the segmentation (so it enters no
\* region mean), is in no extracted region of either class, and no polygon of
\* either vector covers it.
C9_CloudExcluded ==
    \A p \in Pixels :
        Contaminated(p) =>
            /\ "ndvi_diff" \in namespace => ~ndvi_diff.valid[p]
            /\ "change_features" \in namespace =>
                  /\ \A s \in DOMAIN clusters.members : p \notin clusters.members[s]
                  /\ \A c \in Classes : \A s \in DOMAIN change_features[c].members :
                        p \notin change_features[c].members[s]
            /\ \A c \in DOMAIN change_vectors :
                  \A polygon \in change_vectors[c].features : ~Covers(polygon, p)

\* Both vectors exist, one pixel is clouded in the June image and one is
\* shadowed in the September image.
C9_Witness ==
    /\ ppc = "processed"
    /\ \E p \in Pixels : scene[p] = "cloud"
    /\ \E p \in Pixels : scene[p] = "shadow"
    /\ \A c \in Classes : change_vectors[c].features # {}

\* C10: masking an already masked raster again gives the same validity mask.
C10_MaskIdempotent ==
    \A i \in DOMAIN collection :
        "pixel_qa" \in collection[i].bands =>
            mask_landsat8_sr(mask_landsat8_sr(collection[i])).valid
                = mask_landsat8_sr(collection[i]).valid

\* A loaded raster with a valid clouded pixel and a pixel the clip had masked.
C10_Witness ==
    \E i \in DOMAIN collection :
        /\ \E p \in Pixels : collection[i].valid[p] /\ ~keep_mask(collection[i].pixel_qa[p])
        /\ \E p \in Pixels : ~collection[i].valid[p]

====
